---- MODULE Spec2Model ----
(***************************************************************************)
(* Model of the auroadmin agent chat: the dispatch server (the POST route  *)
(* with its ten store handlers) and the chat widget (AgentChatWidget).     *)
(*                                                                         *)
(* Strings are the program's strings.  Timestamps are milliseconds since   *)
(* the epoch, as Date.now() returns them; toISOString() followed by the    *)
(* store's timestamp comparison is order preserving at that precision, so  *)
(* a cutoff is compared as the millisecond number it was formatted from.   *)
(***************************************************************************)
EXTENDS Integers, Sequences, FiniteSets, TLC

VARIABLES
    \* ---- dispatch server, one POST request ----
    pc,         \* position of POST: idle, awaitingFirst, executing, healing, awaitingFinal, done
    apiKey,     \* process.env.OPENAI_API_KEY is set
    req,        \* the parsed request body {query, history}
    prior,      \* the widget history the body was built from (history of the model, not of the code)
    sent,       \* the completion requests sent so far, in order
    choice,     \* data.choices?.[0] of the first completion response
    invoked,    \* the callables POST has invoked through functionMap[name](...)
    storeOps,   \* the store operations issued by the running handler
    handlerOut, \* what the invoked callable did: returned a value or threw
    httpResp,   \* the response POST gives its caller
    upstream,   \* the status class of each completion response received
    machines,   \* rows of table machines
    bookings,   \* rows of table bookings
    tables,     \* number of rows in participating_laundromats, users, drivers
    now,        \* the clock Date.now() reads
    heal,       \* triggerSelfHealing's locals between its two awaits
    \* ---- chat widget ----
    open,       \* useState open
    input,      \* useState input
    loading,    \* useState loading
    history,    \* useState history
    view,       \* the state the last render closed over (what the DOM and sendMessage see)
    calls,      \* the agentChat calls started, each pending, resolved or rejected
    lastDone    \* the last agentChat call that completed, with the state around it

serverVars == <<pc, apiKey, req, prior, sent, choice, invoked, storeOps, handlerOut,
                httpResp, upstream, machines, bookings, tables, now, heal>>
clientVars == <<open, input, loading, history, view, calls, lastDone>>
vars == <<serverVars, clientVars>>

-----------------------------------------------------------------------------
(* Bounds of the model *)

\* how many times the clock may advance during one request
MaxTicks == 1
\* how many submits one widget session makes
MaxSubmits == 2

-----------------------------------------------------------------------------
(* Program constants *)

\* 24 * 60 * 60 * 1000
MachineStaleMs == 86400000
\* 7 * 24 * 60 * 60 * 1000
BookingStaleMs == 604800000
\* a clock reading late enough for rows older than seven days to exist
Now0 == 1000000000

\* null and undefined, kept apart from every text the model uses
Null == "null"
Undefined == "undefined"

SystemPrompt == "You are an agentic admin assistant for a laundromat platform. Answer questions, execute admin actions, and help the user manage the system."
ReplyFallback == "Sorry, I could not generate a response."
ActionCompleted == "Action completed."
MissingKey == "Missing OpenAI API key"
Apology == "Sorry, there was an error contacting the agent."

\* the text an upstream non-2xx response carries, and the store's error message
UpstreamErrorText == "upstream error body"
StoreErrorMessage == "store error"

-----------------------------------------------------------------------------
(* Function registry *)

HandlerNames == {"addLaundromat", "addMachine", "addUser", "addDriver",
                 "getOfflineMachines", "getPendingBookings", "getSystemHealth",
                 "triggerSelfHealing", "getMachineAnalytics", "getRevenueAnalytics"}

\* properties every object literal inherits from Object.prototype
InheritedCallables == {"toString", "constructor"}
ProtoName == "__proto__"

\* the names a function-call signal is drawn from
CallNames == HandlerNames \cup InheritedCallables \cup {ProtoName, "dropAllTables"}

\* functionMap[name]: the kind of value the property lookup yields
Lookup(name) ==
    IF name \in HandlerNames THEN "handler"
    ELSE IF name \in InheritedCallables THEN "inherited"
    ELSE IF name = ProtoName THEN "prototype"
    ELSE "undefined"

\* if (functionMap[name])
Truthy(name) == Lookup(name) # "undefined"

-----------------------------------------------------------------------------
(* Argument payloads and JSON *)

\* the function_call.arguments strings the completion service may produce
ArgPayloads == {"{", "{}", "{required}", "{full}", "null"}

\* try { parsedArgs = JSON.parse(args) } catch {}: a payload that does not parse leaves {}
ParseArgs(args) == IF args = "{" THEN "{}" ELSE args

\* JSON.parse("null"): a bag the four destructuring handlers cannot take
NullBag == "null"

\* a destructured field of the argument bag
Field(bag, f) ==
    IF bag = "{}" THEN Undefined
    ELSE IF f = "current_status" /\ bag = "{required}" THEN Undefined
    ELSE IF f = "current_status" THEN "In Use"
    ELSE IF f = "phone" /\ bag = "{required}" THEN Undefined
    ELSE f \o "-value"

\* a quotation mark as the text holds it, and as JSON.stringify escapes it
Quote == "\""
EscapedQuote == "\\\""

\* JSON.stringify of a string, given the string with its quotation marks escaped
JSONStringify(escaped) == Quote \o escaped \o Quote

\* a || b on strings, null and undefined
OrElse(v, d) == IF v \in {Null, Undefined, ""} THEN d ELSE v

-----------------------------------------------------------------------------
(* Message list *)

MapRole(m) == [role |-> IF m.role = "agent" THEN "assistant" ELSE m.role,
               content |-> m.content]

MapHistory(h) == [i \in 1..Len(h) |-> MapRole(h[i])]

\* messages = [system, ...(history || []).map(...), {role: 'user', content: query}]
BuildMessages(query, hist) ==
    <<[role |-> "system", content |-> SystemPrompt]>>
    \o MapHistory(hist)
    \o <<[role |-> "user", content |-> query]>>

\* the body agentChat posts for sendMessage: agentChat(input, [...history, userMsg])
UserMsg(text) == [role |-> "user", content |-> text]

ChatBody(text, hist) == [query |-> text, history |-> Append(hist, UserMsg(text))]

-----------------------------------------------------------------------------
(* The store *)

MachineRow(id, status, at, rev) ==
    [machine_id |-> id, current_status |-> status, updated_at |-> at,
     average_monthly_revenue |-> rev]

BookingRow(id, status, at) == [booking_id |-> id, status |-> status, created_at |-> at]

\* one machine of every kind the sweep distinguishes: stuck for more than 24 hours,
\* updated exactly 24 hours ago, updated an hour ago, and old but not "In Use"
FullMachines ==
    << MachineRow("m1", "In Use", Now0 - MachineStaleMs - 3600000, <<120>>),
       MachineRow("m2", "In Use", Now0 - MachineStaleMs, <<>>),
       MachineRow("m3", "In Use", Now0 - 3600000, <<85>>),
       MachineRow("m4", "Offline", Now0 - MachineStaleMs - 3600000, <<>>) >>

\* one booking of every kind: pending for eight days, created exactly seven days ago,
\* created a day ago, and old but not "Pending"
FullBookings ==
    << BookingRow("b1", "Pending", Now0 - BookingStaleMs - MachineStaleMs),
       BookingRow("b2", "Pending", Now0 - BookingStaleMs),
       BookingRow("b3", "Pending", Now0 - MachineStaleMs),
       BookingRow("b4", "Completed", Now0 - BookingStaleMs - MachineStaleMs) >>

StoreOp(table, op, err, changed) ==
    [table |-> table, op |-> op, error |-> err, changed |-> changed]

-----------------------------------------------------------------------------
(* What an invoked callable does *)

NoOut == [kind |-> "none", value |-> "", json |-> "", type |-> "", prefix |-> "", detail |-> ""]

\* a returned string; escaped is the string as JSON.stringify writes its characters
ReturnQuoted(v, escaped) ==
    [NoOut EXCEPT !.kind = "return", !.value = v, !.json = JSONStringify(escaped)]

\* a returned string that holds no character JSON escapes
Return(v) == ReturnQuoted(v, v)

\* a returned object, which JSON.stringify serialises without quotes
ReturnObject(bag) == [NoOut EXCEPT !.kind = "return", !.value = bag, !.json = bag]

\* throw new Error(prefix + detail), or the TypeError the runtime throws
Throw(type, prefix, detail) ==
    [NoOut EXCEPT !.kind = "throw", !.type = type, !.prefix = prefix, !.detail = detail]

\* destructuring the parameter of an add handler from null
DestructureNull == Throw("TypeError", "Cannot destructure property of null", "")

\* if (error) throw new Error(`Failed to ...: ${error.message}`); return summary
WrapOrReturn(err, prefix, summary) ==
    IF err THEN Throw("Error", prefix, StoreErrorMessage) ELSE Return(summary)

\* the same for a summary that quotes a field; escaped is the summary as JSON writes it
WrapOrReturnQuoted(err, prefix, summary, escaped) ==
    IF err THEN Throw("Error", prefix, StoreErrorMessage)
    ELSE ReturnQuoted(summary, escaped)

RECURSIVE Join(_, _)
\* Array.prototype.join
Join(seq, sep) ==
    IF seq = <<>> THEN ""
    ELSE IF Len(seq) = 1 THEN seq[1]
    ELSE seq[1] \o sep \o Join(Tail(seq), sep)

RECURSIVE SelectSeq2(_, _)
\* rows of a table a filter keeps, in table order
SelectSeq2(rows, keep) ==
    IF rows = <<>> THEN <<>>
    ELSE IF rows[1] \in keep THEN <<rows[1]>> \o SelectSeq2(Tail(rows), keep)
    ELSE SelectSeq2(Tail(rows), keep)

Rows(rows) == {rows[i] : i \in DOMAIN rows}

AddLaundromatSummary(bag, q) ==
    "Laundromat " \o q \o Field(bag, "name") \o q \o " at " \o Field(bag, "address")
    \o " (" \o Field(bag, "borough") \o ") added successfully."

AddMachineSummary(bag, q) ==
    "Machine " \o q \o Field(bag, "machine_id") \o q \o " (" \o Field(bag, "machine_type")
    \o ") added to laundromat " \o Field(bag, "laundromat_id") \o "."

AddUserSummary(bag, q) ==
    "User " \o q \o Field(bag, "full_name") \o q \o " (" \o Field(bag, "email")
    \o ") added successfully."

AddDriverSummary(bag, q) ==
    "Driver " \o q \o Field(bag, "full_name") \o q \o " (" \o Field(bag, "phone")
    \o ") added successfully."

\* the row addMachine inserts: current_status || 'Available', stamped with the clock
NewMachine(bag, clock) ==
    MachineRow(Field(bag, "machine_id"),
               OrElse(Field(bag, "current_status"), "Available"), clock, <<>>)

OfflineMachines(ms) == SelectSeq2(ms, {r \in Rows(ms) : r.current_status = "Offline"})

PendingBookings(bs) == SelectSeq2(bs, {r \in Rows(bs) : r.status = "Pending"})

OfflineSummary(ms) ==
    LET data == OfflineMachines(ms) IN
    "Found " \o ToString(Len(data)) \o " offline machines: "
    \o Join([i \in 1..Len(data) |-> data[i].machine_id], ", ")

PendingSummary(bs) ==
    LET data == PendingBookings(bs) IN
    "Found " \o ToString(Len(data)) \o " pending bookings: "
    \o Join([i \in 1..Len(data) |-> data[i].booking_id], ", ")

RECURSIVE FirstSeen(_)
\* the keys of statusCounts in insertion order
FirstSeen(ms) ==
    IF ms = <<>> THEN <<>>
    ELSE LET rest == FirstSeen(SubSeq(ms, 1, Len(ms) - 1))
             s == ms[Len(ms)].current_status
         IN IF \E i \in DOMAIN rest : rest[i] = s THEN rest ELSE Append(rest, s)

StatusCount(ms, s) == Cardinality({i \in DOMAIN ms : ms[i].current_status = s})

AnalyticsSummary(ms) ==
    LET keys == FirstSeen(ms) IN
    "Machine Status Distribution: "
    \o Join([i \in 1..Len(keys) |-> keys[i] \o ": " \o ToString(StatusCount(ms, keys[i]))], ", ")

\* getMachineAnalytics: the .then callback reads data.reduce before any error check,
\* and replaces the store's error by null
MachineAnalyticsOut(err, ms) ==
    IF err THEN Throw("TypeError", "Cannot read properties of null (reading 'reduce')", "")
    ELSE Return(AnalyticsSummary(ms))

RECURSIVE SumRevenue(_)
SumRevenue(data) ==
    IF data = <<>> THEN 0
    ELSE data[1].average_monthly_revenue[1] + SumRevenue(Tail(data))

\* (num / den).toFixed(2) for num >= 0: hundredths rounded to nearest, printed with two digits
ToFixed2(num, den) ==
    LET hundredths == (200 * num + den) \div (2 * den)
        frac == hundredths % 100
    IN ToString(hundredths \div 100) \o "."
       \o (IF frac < 10 THEN "0" ELSE "") \o ToString(frac)

\* total and mean over the machines with a revenue: total / (data.length || 1)
RevenueSummary(ms) ==
    LET data == SelectSeq2(ms, {r \in Rows(ms) : r.average_monthly_revenue # <<>>})
        total == SumRevenue(data)
        den == IF Len(data) = 0 THEN 1 ELSE Len(data)
    IN "Total Monthly Revenue: $" \o ToFixed2(total, 1) \o ", Average per Machine: $"
       \o ToFixed2(total, den)

\* getSystemHealth never throws: it reports degradation in its return value
SystemHealthOut(e1, e2, e3, e4) ==
    IF ~e1 /\ ~e2 /\ ~e3 /\ ~e4
    THEN Return("System is healthy. All services operational.")
    ELSE Return("System issues detected. Some services may be degraded.")

\* the filter with .eq('current_status', 'In Use') left out
StuckMachineAnyStatus(row, cutoff) == row.updated_at < cutoff

\* .eq('current_status', 'In Use').lt('updated_at', cutoff)
StuckMachine(row, cutoff) == row.current_status = "In Use" /\ row.updated_at < cutoff

\* .eq('status', 'Pending').lt('created_at', cutoff)
StaleBooking(row, cutoff) == row.status = "Pending" /\ row.created_at < cutoff

ResetMachines(ms, cutoff) ==
    [i \in DOMAIN ms |-> IF StuckMachine(ms[i], cutoff)
                         THEN [ms[i] EXCEPT !.current_status = "Available"] ELSE ms[i]]

CancelBookings(bs, cutoff) ==
    [i \in DOMAIN bs |-> IF StaleBooking(bs[i], cutoff)
                         THEN [bs[i] EXCEPT !.status = "Cancelled"] ELSE bs[i]]

CountStuck(ms, cutoff) == Cardinality({i \in DOMAIN ms : StuckMachine(ms[i], cutoff)})

CountStale(bs, cutoff) == Cardinality({i \in DOMAIN bs : StaleBooking(bs[i], cutoff)})

\* if (stuckError || staleError) throw ...; return `Self-healing complete. ...`
SelfHealingOut(stuckErr, staleErr, nStuck, nStale) ==
    IF stuckErr \/ staleErr
    THEN Throw("Error", "Failed to complete self-healing routine", "")
    ELSE Return("Self-healing complete. Reset " \o ToString(nStuck)
                \o " stuck machines and " \o ToString(nStale) \o " stale bookings.")

NoHeal == [t1 |-> 0, t2 |-> 0, stuckErr |-> FALSE, nStuck |-> 0, nStale |-> 0,
           m0 |-> <<>>, b0 |-> <<>>]

-----------------------------------------------------------------------------
(* The dispatch server: POST *)

Contents == {Null, "", "Two machines are offline."}

NoFc == [present |-> FALSE, name |-> "", arguments |-> ""]

FunctionCalls == {NoFc} \cup [present : {TRUE}, name : CallNames, arguments : ArgPayloads]

\* data.choices is missing or empty
NoChoice == [present |-> FALSE, finish_reason |-> Undefined, content |-> Undefined, fc |-> NoFc]

Choices == {NoChoice} \cup [present : {TRUE}, finish_reason : {"stop", "function_call"},
                            content : Contents, fc : FunctionCalls]

\* choice?.finish_reason === 'function_call' && choice.message?.function_call
Signals(c) == c.present /\ c.finish_reason = "function_call" /\ c.fc.present

\* the direct reply with the follow-up's default text
DirectReplyWrongDefault(c) == OrElse(c.content, ActionCompleted)

\* choice?.message?.content || 'Sorry, I could not generate a response.'
DirectReply(c) == OrElse(c.content, ReplyFallback)

\* followupData.choices?.[0]?.message?.content || 'Action completed.'
FinalReply(content) == OrElse(content, ActionCompleted)

NoResp == [status |-> 0, kind |-> "none", text |-> ""]

\* NextResponse.json({ reply })
ReplyResp(text) == [status |-> 200, kind |-> "reply", text |-> text]

\* NextResponse.json({ error }, { status: 500 })
ErrorResp(text) == [status |-> 500, kind |-> "error", text |-> text]

\* POST rejected: the runtime answers with its own 500, which has no {reply} and no {error}
Unhandled == [status |-> 500, kind |-> "unhandled", text |-> ""]

Queries == {"Which machines are offline?"}

PriorHistories == { <<>>,
                    << [role |-> "user", content |-> "hi"],
                       [role |-> "agent", content |-> "Hello, how can I help?"] >> }

\* the bodies the widget posts, and a body without history from another caller
WidgetBodies == {[body |-> ChatBody(q, h) @@ [hasHistory |-> TRUE],
                  prior |-> [fromWidget |-> TRUE, history |-> h]] :
                     q \in Queries, h \in PriorHistories}

BareBodies == {[body |-> [query |-> q, history |-> <<>>, hasHistory |-> FALSE],
                prior |-> [fromWidget |-> FALSE, history |-> <<>>]] : q \in Queries}

\* the first completion request: messages, with the function schemas attached
FirstRequest(body) ==
    [messages |-> BuildMessages(body.query, IF body.hasHistory THEN body.history ELSE <<>>),
     functions |-> TRUE]

\* the follow-up: messages, the function-call turn, the function-result turn; no schemas
FollowupRequest(messages, fc, out) ==
    [messages |-> messages
        \o << [role |-> "assistant", content |-> Null,
               function_call |-> [name |-> fc.name, arguments |-> fc.arguments]],
              [role |-> "function", name |-> fc.name, content |-> out.json] >>,
     functions |-> FALSE]

ServerInit ==
    /\ pc = "idle"
    /\ apiKey = TRUE
    /\ req = [query |-> "", history |-> <<>>, hasHistory |-> FALSE]
    /\ prior = [fromWidget |-> FALSE, history |-> <<>>]
    /\ sent = <<>>
    /\ choice = NoChoice
    /\ invoked = <<>>
    /\ storeOps = <<>>
    /\ handlerOut = NoOut
    /\ httpResp = NoResp
    /\ upstream = <<>>
    /\ machines \in {<<>>, FullMachines}
    /\ bookings \in {<<>>, FullBookings}
    /\ tables = [participating_laundromats |-> 0, users |-> 0, drivers |-> 0]
    /\ now = Now0
    /\ heal = NoHeal

\* lines 264-291: read the body, check the key, build the messages, send the first request
Receive ==
    /\ pc = "idle"
    /\ \E b \in WidgetBodies \cup BareBodies, key \in BOOLEAN :
        /\ req' = b.body
        /\ prior' = b.prior
        /\ apiKey' = key
        /\ IF ~key
           THEN /\ httpResp' = ErrorResp(MissingKey)
                /\ pc' = "done"
                /\ sent' = sent
           ELSE /\ sent' = <<FirstRequest(b.body)>>
                /\ pc' = "awaitingFirst"
                /\ httpResp' = httpResp
    /\ UNCHANGED <<choice, invoked, storeOps, handlerOut, upstream, machines, bookings,
                   tables, now, heal, clientVars>>

\* the first fetch rejects (transport error): POST rejects
FirstRejected ==
    /\ pc = "awaitingFirst"
    /\ upstream' = Append(upstream, "reject")
    /\ httpResp' = Unhandled
    /\ pc' = "done"
    /\ UNCHANGED <<apiKey, req, prior, sent, choice, invoked, storeOps, handlerOut,
                   machines, bookings, tables, now, heal, clientVars>>

\* lines 293-296: if (!response.ok) relay the upstream text
FirstNon2xx ==
    /\ pc = "awaitingFirst"
    /\ upstream' = Append(upstream, "non2xx")
    /\ httpResp' = ErrorResp(UpstreamErrorText)
    /\ pc' = "done"
    /\ UNCHANGED <<apiKey, req, prior, sent, choice, invoked, storeOps, handlerOut,
                   machines, bookings, tables, now, heal, clientVars>>

\* lines 298-303 and 331-332: a 2xx completion; dispatch, or fall through to the reply
FirstOk ==
    /\ pc = "awaitingFirst"
    /\ \E c \in Choices :
        /\ choice' = c
        /\ IF Signals(c) /\ Truthy(c.fc.name)
           THEN pc' = "executing" /\ httpResp' = httpResp
           ELSE pc' = "done" /\ httpResp' = ReplyResp(DirectReply(c))
    /\ upstream' = Append(upstream, "2xx")
    /\ UNCHANGED <<apiKey, req, prior, sent, invoked, storeOps, handlerOut,
                   machines, bookings, tables, now, heal, clientVars>>

\* line 306 onwards: what POST does once the awaited callable has settled
Settle(out) ==
    /\ handlerOut' = out
    /\ IF out.kind = "throw"
       THEN /\ pc' = "done"
            /\ httpResp' = Unhandled
            /\ sent' = sent
       ELSE /\ pc' = "awaitingFinal"
            /\ httpResp' = httpResp
            /\ sent' = Append(sent, FollowupRequest(sent[1].messages, choice.fc, out))

Executing(name) == pc = "executing" /\ choice.fc.name = name

Bag == ParseArgs(choice.fc.arguments)

Invoke(name) == invoked' = Append(invoked, [name |-> name, kind |-> Lookup(name)])

addLaundromat ==
    /\ Executing("addLaundromat")
    /\ Invoke("addLaundromat")
    /\ \/ /\ Bag = NullBag
          /\ storeOps' = <<>>
          /\ tables' = tables
          /\ Settle(DestructureNull)
       \/ /\ Bag # NullBag
          /\ \E err \in BOOLEAN :
              /\ storeOps' = <<StoreOp("participating_laundromats", "insert", err, IF err THEN 0 ELSE 1)>>
              /\ tables' = IF err THEN tables
                           ELSE [tables EXCEPT !.participating_laundromats = @ + 1]
              /\ Settle(WrapOrReturnQuoted(err, "Failed to add laundromat: ",
                                           AddLaundromatSummary(Bag, Quote),
                                           AddLaundromatSummary(Bag, EscapedQuote)))
    /\ UNCHANGED <<apiKey, req, prior, choice, upstream, machines, bookings, now, heal, clientVars>>

addMachine ==
    /\ Executing("addMachine")
    /\ Invoke("addMachine")
    /\ \/ /\ Bag = NullBag
          /\ storeOps' = <<>>
          /\ machines' = machines
          /\ Settle(DestructureNull)
       \/ /\ Bag # NullBag
          /\ \E err \in BOOLEAN :
              /\ storeOps' = <<StoreOp("machines", "insert", err, IF err THEN 0 ELSE 1)>>
              /\ machines' = IF err THEN machines ELSE Append(machines, NewMachine(Bag, now))
              /\ Settle(WrapOrReturnQuoted(err, "Failed to add machine: ",
                                           AddMachineSummary(Bag, Quote),
                                           AddMachineSummary(Bag, EscapedQuote)))
    /\ UNCHANGED <<apiKey, req, prior, choice, upstream, bookings, tables, now, heal, clientVars>>

addUser ==
    /\ Executing("addUser")
    /\ Invoke("addUser")
    /\ \/ /\ Bag = NullBag
          /\ storeOps' = <<>>
          /\ tables' = tables
          /\ Settle(DestructureNull)
       \/ /\ Bag # NullBag
          /\ \E err \in BOOLEAN :
              /\ storeOps' = <<StoreOp("users", "insert", err, IF err THEN 0 ELSE 1)>>
              /\ tables' = IF err THEN tables ELSE [tables EXCEPT !.users = @ + 1]
              /\ Settle(WrapOrReturnQuoted(err, "Failed to add user: ",
                                           AddUserSummary(Bag, Quote),
                                           AddUserSummary(Bag, EscapedQuote)))
    /\ UNCHANGED <<apiKey, req, prior, choice, upstream, machines, bookings, now, heal, clientVars>>

addDriver ==
    /\ Executing("addDriver")
    /\ Invoke("addDriver")
    /\ \/ /\ Bag = NullBag
          /\ storeOps' = <<>>
          /\ tables' = tables
          /\ Settle(DestructureNull)
       \/ /\ Bag # NullBag
          /\ \E err \in BOOLEAN :
              /\ storeOps' = <<StoreOp("drivers", "insert", err, IF err THEN 0 ELSE 1)>>
              /\ tables' = IF err THEN tables ELSE [tables EXCEPT !.drivers = @ + 1]
              /\ Settle(WrapOrReturnQuoted(err, "Failed to add driver: ",
                                           AddDriverSummary(Bag, Quote),
                                           AddDriverSummary(Bag, EscapedQuote)))
    /\ UNCHANGED <<apiKey, req, prior, choice, upstream, machines, bookings, now, heal, clientVars>>

getOfflineMachines ==
    /\ Executing("getOfflineMachines")
    /\ Invoke("getOfflineMachines")
    /\ \E err \in BOOLEAN :
        /\ storeOps' = <<StoreOp("machines", "select", err, 0)>>
        /\ Settle(WrapOrReturn(err, "Failed to get offline machines: ", OfflineSummary(machines)))
    /\ UNCHANGED <<apiKey, req, prior, choice, upstream, machines, bookings, tables, now, heal,
                   clientVars>>

getPendingBookings ==
    /\ Executing("getPendingBookings")
    /\ Invoke("getPendingBookings")
    /\ \E err \in BOOLEAN :
        /\ storeOps' = <<StoreOp("bookings", "select", err, 0)>>
        /\ Settle(WrapOrReturn(err, "Failed to get pending bookings: ", PendingSummary(bookings)))
    /\ UNCHANGED <<apiKey, req, prior, choice, upstream, machines, bookings, tables, now, heal,
                   clientVars>>

\* four selects issued together and joined by Promise.all
getSystemHealth ==
    /\ Executing("getSystemHealth")
    /\ Invoke("getSystemHealth")
    /\ \E e1, e2, e3, e4 \in BOOLEAN :
        /\ storeOps' = << StoreOp("machines", "select", e1, 0),
                          StoreOp("bookings", "select", e2, 0),
                          StoreOp("users", "select", e3, 0),
                          StoreOp("drivers", "select", e4, 0) >>
        /\ Settle(SystemHealthOut(e1, e2, e3, e4))
    /\ UNCHANGED <<apiKey, req, prior, choice, upstream, machines, bookings, tables, now, heal,
                   clientVars>>

\* triggerSelfHealing up to its second await: the update of machines
triggerSelfHealing ==
    /\ Executing("triggerSelfHealing")
    /\ Invoke("triggerSelfHealing")
    /\ \E err \in BOOLEAN :
        LET cutoff == now - MachineStaleMs
            n == IF err THEN 0 ELSE CountStuck(machines, cutoff)
        IN /\ storeOps' = <<StoreOp("machines", "update", err, n)>>
           /\ machines' = IF err THEN machines ELSE ResetMachines(machines, cutoff)
           /\ heal' = [NoHeal EXCEPT !.t1 = now, !.stuckErr = err, !.nStuck = n,
                                     !.m0 = machines, !.b0 = bookings]
    /\ pc' = "healing"
    /\ UNCHANGED <<apiKey, req, prior, sent, choice, handlerOut, httpResp, upstream,
                   bookings, tables, now, clientVars>>

\* triggerSelfHealing from its second update to its end
triggerSelfHealingBookings ==
    /\ pc = "healing"
    /\ \E err \in BOOLEAN :
        LET cutoff == now - BookingStaleMs
            n == IF err THEN 0 ELSE CountStale(bookings, cutoff)
        IN /\ storeOps' = Append(storeOps, StoreOp("bookings", "update", err, n))
           /\ bookings' = IF err THEN bookings ELSE CancelBookings(bookings, cutoff)
           /\ heal' = [heal EXCEPT !.t2 = now, !.nStale = n]
           /\ Settle(SelfHealingOut(heal.stuckErr, err, heal.nStuck, n))
    /\ UNCHANGED <<apiKey, req, prior, choice, invoked, upstream, machines, tables, now,
                   clientVars>>

getMachineAnalytics ==
    /\ Executing("getMachineAnalytics")
    /\ Invoke("getMachineAnalytics")
    /\ \E err \in BOOLEAN :
        /\ storeOps' = <<StoreOp("machines", "select", err, 0)>>
        /\ Settle(MachineAnalyticsOut(err, machines))
    /\ UNCHANGED <<apiKey, req, prior, choice, upstream, machines, bookings, tables, now, heal,
                   clientVars>>

getRevenueAnalytics ==
    /\ Executing("getRevenueAnalytics")
    /\ Invoke("getRevenueAnalytics")
    /\ \E err \in BOOLEAN :
        /\ storeOps' = <<StoreOp("machines", "select", err, 0)>>
        /\ Settle(WrapOrReturn(err, "Failed to get revenue analytics: ", RevenueSummary(machines)))
    /\ UNCHANGED <<apiKey, req, prior, choice, upstream, machines, bookings, tables, now, heal,
                   clientVars>>

\* functionMap[name] found on Object.prototype: toString.call(functionMap) returns
\* "[object Object]", constructor(parsedArgs) returns the argument object (a new
\* empty object for null)
InheritedOut(name, bag) ==
    IF name = "toString" THEN Return("[object Object]")
    ELSE ReturnObject(IF bag = NullBag THEN "{}" ELSE bag)

CallInherited ==
    /\ pc = "executing"
    /\ Lookup(choice.fc.name) = "inherited"
    /\ Invoke(choice.fc.name)
    /\ Settle(InheritedOut(choice.fc.name, Bag))
    /\ UNCHANGED <<apiKey, req, prior, choice, storeOps, upstream, machines, bookings, tables,
                   now, heal, clientVars>>

\* functionMap["__proto__"] is Object.prototype: truthy and not callable
CallPrototype ==
    /\ pc = "executing"
    /\ Lookup(choice.fc.name) = "prototype"
    /\ Settle(Throw("TypeError", "functionMap[name] is not a function", ""))
    /\ UNCHANGED <<apiKey, req, prior, choice, invoked, storeOps, upstream, machines, bookings,
                   tables, now, heal, clientVars>>

\* the follow-up fetch rejects: POST rejects
FinalRejected ==
    /\ pc = "awaitingFinal"
    /\ upstream' = Append(upstream, "reject")
    /\ httpResp' = Unhandled
    /\ pc' = "done"
    /\ UNCHANGED <<apiKey, req, prior, sent, choice, invoked, storeOps, handlerOut,
                   machines, bookings, tables, now, heal, clientVars>>

\* lines 325-327 on a 2xx follow-up
FinalOk ==
    /\ pc = "awaitingFinal"
    /\ \E content \in Contents : httpResp' = ReplyResp(FinalReply(content))
    /\ upstream' = Append(upstream, "2xx")
    /\ pc' = "done"
    /\ UNCHANGED <<apiKey, req, prior, sent, choice, invoked, storeOps, handlerOut,
                   machines, bookings, tables, now, heal, clientVars>>

\* lines 325-327 on a non-2xx follow-up: followup.ok is never read.  A JSON error body
\* has no choices, so the reply is the default; a body that is not JSON makes
\* followup.json() reject
FinalNon2xx ==
    /\ pc = "awaitingFinal"
    /\ \E isJson \in BOOLEAN :
        httpResp' = IF isJson THEN ReplyResp(FinalReply(Undefined)) ELSE Unhandled
    /\ upstream' = Append(upstream, "non2xx")
    /\ pc' = "done"
    /\ UNCHANGED <<apiKey, req, prior, sent, choice, invoked, storeOps, handlerOut,
                   machines, bookings, tables, now, heal, clientVars>>

\* the clock advances while a request is being served
Tick ==
    /\ pc \notin {"idle", "done"}
    /\ now < Now0 + MaxTicks
    /\ now' = now + 1
    /\ UNCHANGED <<pc, apiKey, req, prior, sent, choice, invoked, storeOps, handlerOut,
                   httpResp, upstream, machines, bookings, tables, heal, clientVars>>

ClientIdle ==
    /\ open = FALSE
    /\ input = ""
    /\ loading = FALSE
    /\ history = <<>>
    /\ view = [open |-> FALSE, input |-> "", loading |-> FALSE, history |-> <<>>]
    /\ calls = <<>>
    /\ lastDone = [outcome |-> "none", before |-> <<>>, after |-> <<>>, loading |-> FALSE]

NextServer ==
    \/ Receive
    \/ FirstRejected
    \/ FirstNon2xx
    \/ FirstOk
    \/ addLaundromat
    \/ addMachine
    \/ addUser
    \/ addDriver
    \/ getOfflineMachines
    \/ getPendingBookings
    \/ getSystemHealth
    \/ triggerSelfHealing
    \/ triggerSelfHealingBookings
    \/ getMachineAnalytics
    \/ getRevenueAnalytics
    \/ CallInherited
    \/ CallPrototype
    \/ FinalRejected
    \/ FinalOk
    \/ FinalNon2xx
    \/ Tick

\* one POST request against the store, the widget left idle
InitServer == ServerInit /\ ClientIdle

SpecServer == InitServer /\ [][NextServer]_vars

-----------------------------------------------------------------------------
(* The chat widget *)

\* what the user may have in the input box
Inputs == {"", " ", "hi"}

\* String.prototype.trim on those inputs
Trim(text) == IF text = " " THEN "" ELSE text

\* data.reply of a 2xx answer: a text, or a body without reply
ReplyTexts == {"Two machines are offline.", Undefined}

AgentMsg(text) == [role |-> "agent", content |-> text]

\* agentChat's return value on a 2xx answer: data.reply || fallback
ChatReply(reply) == OrElse(reply, ReplyFallback)

Pending == {i \in DOMAIN calls : calls[i].status = "pending"}

\* the submit button is enabled in the rendered DOM: disabled={loading || !input.trim()}.
\* Enter in the input submits through the same button (implicit submission)
CanSubmit == view.open /\ ~view.loading /\ Trim(view.input) # ""

\* the floating button (shown while closed) and the X button (shown while open)
Toggle ==
    /\ open' = ~view.open
    /\ open' # open
    /\ UNCHANGED <<input, loading, history, view, calls, lastDone, serverVars>>

\* onChange of the input, which is disabled={loading} in the rendered DOM
Type ==
    /\ view.open
    /\ ~view.loading
    /\ \E text \in Inputs :
        /\ text # input
        /\ input' = text
    /\ UNCHANGED <<open, loading, history, view, calls, lastDone, serverVars>>

\* React renders: the next event handlers close over the current state
Render ==
    /\ view # [open |-> open, input |-> input, loading |-> loading, history |-> history]
    /\ view' = [open |-> open, input |-> input, loading |-> loading, history |-> history]
    /\ UNCHANGED <<open, input, loading, history, calls, lastDone, serverVars>>

\* sendMessage up to its await, run from the form's onSubmit: it reads input and history
\* from the render it was created in, and never reads loading
sendMessage ==
    /\ CanSubmit
    /\ Len(calls) < MaxSubmits
    /\ Trim(view.input) # ""
    /\ history' = Append(history, UserMsg(view.input))
    /\ input' = ""
    /\ loading' = TRUE
    /\ calls' = Append(calls, [body |-> ChatBody(view.input, view.history),
                               prior |-> history, status |-> "pending"])
    /\ UNCHANGED <<open, view, lastDone, serverVars>>

\* what sendMessage does after await agentChat(...) resolved with text
Resume(i, outcome, text) ==
    /\ history' = Append(history, AgentMsg(text))
    /\ loading' = FALSE
    /\ calls' = [calls EXCEPT ![i].status = "resolved"]
    /\ lastDone' = [outcome |-> outcome, before |-> history,
                    after |-> Append(history, AgentMsg(text)), loading |-> FALSE]

\* the server answered 2xx
ChatReplied ==
    /\ \E i \in Pending, reply \in ReplyTexts : Resume(i, "2xx", ChatReply(reply))
    /\ UNCHANGED <<open, input, view, serverVars>>

\* the server answered non-2xx: agentChat returns the apology
ChatNon2xx ==
    /\ \E i \in Pending : Resume(i, "non2xx", Apology)
    /\ UNCHANGED <<open, input, view, serverVars>>

\* fetch (or res.json()) rejects: agentChat rejects, and so does sendMessage at its
\* await; the two statements after it never run
ChatRejected ==
    /\ \E i \in Pending :
        /\ calls' = [calls EXCEPT ![i].status = "rejected"]
        /\ lastDone' = [outcome |-> "reject", before |-> history, after |-> history,
                        loading |-> loading]
    /\ UNCHANGED <<open, input, loading, history, view, serverVars>>

NextClient ==
    \/ Toggle
    \/ Type
    \/ Render
    \/ sendMessage
    \/ ChatReplied
    \/ ChatNon2xx
    \/ ChatRejected

\* one widget session, the server left idle
InitClient == ClientIdle /\ ServerInit

SpecClient == InitClient /\ [][NextClient]_vars

-----------------------------------------------------------------------------
(* Claims about the widget, checked under SpecClient *)

UserTurns(h) == Cardinality({i \in DOMAIN h : h[i].role = "user"})

\* C1: whenever the call made by sendMessage fails (a non-2xx answer or a rejected
\* fetch), the history gains exactly one agent turn holding the apology, every
\* submitted user turn is in the history exactly once, and loading is false again.
C1_FailedCallApologises ==
    /\ UserTurns(history) = Len(calls)
    /\ lastDone.outcome \in {"non2xx", "reject"} =>
        /\ lastDone.after = Append(lastDone.before, AgentMsg(Apology))
        /\ lastDone.loading = FALSE

\* C1, the failing case: the fetch was rejected, no turn was added and the widget
\* is left loading with nothing pending
C1_RejectedLeavesLoading ==
    /\ lastDone.outcome = "reject"
    /\ lastDone.after = lastDone.before
    /\ loading
    /\ Pending = {}

\* C3: at most one server request of one widget is outstanding at any time, also
\* when two submit events arrive before the component renders again.
C3_OneOutstanding == Cardinality(Pending) <= 1

\* C3, the failing case: two submits handled in the same render, both requests pending
C3_TwoOutstanding ==
    /\ Cardinality(Pending) = 2
    /\ ~view.loading
    /\ calls[1].body = calls[2].body

-----------------------------------------------------------------------------
(* Claims about the dispatch server, checked under SpecServer *)

Done == pc = "done"

\* C2: if any completion call (the first or the follow-up) answers non-2xx, the
\* request ends with a non-2xx {error} response carrying the upstream text, and
\* never with a 2xx {reply}.
C2_UpstreamFailureIsFatal ==
    (\E i \in DOMAIN upstream : upstream[i] = "non2xx") =>
        /\ httpResp.kind = "error"
        /\ httpResp.status = 500
        /\ httpResp.text = UpstreamErrorText

\* C2, the failing case: the follow-up answered non-2xx and POST replied 2xx
C2_FollowupFailureRepliesOk ==
    /\ Len(upstream) = 2
    /\ upstream[2] = "non2xx"
    /\ httpResp = [status |-> 200, kind |-> "reply", text |-> ActionCompleted]

\* C4: a function-call signal naming a function that is not one of the ten handlers
\* (also a name the lookup table inherits) never fails the request: nothing is
\* invoked, no second completion request is sent, and the answer is a 2xx {reply}
\* with a non-empty text (the content if present, else the fallback).
C4_UnregisteredFallsThrough ==
    (/\ choice.present
     /\ choice.finish_reason = "function_call"
     /\ choice.fc.present
     /\ choice.fc.name \notin HandlerNames) =>
        /\ invoked = <<>>
        /\ Len(sent) = 1
        /\ Done =>
            /\ httpResp.kind = "reply"
            /\ httpResp.status = 200
            /\ httpResp.text = (IF choice.content \in {Null, ""} THEN ReplyFallback
                                ELSE choice.content)

\* C4, the failing cases: "__proto__" ends the request as a server error, and
\* "toString" is called and its result sent in a second completion request
C4_ProtoFails ==
    /\ choice.fc.name = "__proto__"
    /\ Done
    /\ httpResp = Unhandled
    /\ handlerOut.type = "TypeError"

\* C5: every store error met by a handler makes the handler throw an error whose
\* message carries the store's error message, and the request ends as a server
\* error without a reply; in particular for getMachineAnalytics, getSystemHealth
\* and triggerSelfHealing.
C5_StoreErrorIsWrapped ==
    (/\ handlerOut.kind # "none"
     /\ \E i \in DOMAIN storeOps : storeOps[i].error) =>
        /\ handlerOut.kind = "throw"
        /\ handlerOut.detail = StoreErrorMessage
        /\ Done
        /\ httpResp = Unhandled

\* C5, the failing case: getMachineAnalytics on a store error throws a TypeError
\* that does not carry the store's message
C5_AnalyticsLosesStoreError ==
    /\ invoked = <<[name |-> "getMachineAnalytics", kind |-> "handler"]>>
    /\ storeOps[1].error
    /\ handlerOut.kind = "throw"
    /\ handlerOut.type = "TypeError"
    /\ handlerOut.detail # StoreErrorMessage

\* C6: every handler invocation issues exactly one store operation, so no handler
\* has reported failure after one of its operations changed the store.
C6_SingleStoreOperation ==
    (handlerOut.kind # "none" /\ Len(invoked) = 1 /\ invoked[1].kind = "handler") =>
        /\ Len(storeOps) = 1
        /\ handlerOut.kind = "throw" => \A i \in DOMAIN storeOps : storeOps[i].changed = 0

\* C6, the failing case: triggerSelfHealing reset a machine, its bookings update
\* failed, and the handler threw with the machines left changed
C6_PartialSelfHealing ==
    /\ invoked = <<[name |-> "triggerSelfHealing", kind |-> "handler"]>>
    /\ handlerOut.kind = "throw"
    /\ Len(storeOps) = 2
    /\ storeOps[1].changed > 0
    /\ machines # heal.m0
    /\ httpResp = Unhandled

\* triggerSelfHealing ran to its end with both updates successful
Healed ==
    /\ invoked = <<[name |-> "triggerSelfHealing", kind |-> "handler"]>>
    /\ handlerOut.kind = "return"

Changed(after, before) == Cardinality({i \in DOMAIN before : after[i] # before[i]})

\* the machines, given what they were, after a sweep whose clock read was t
SweptMachines(t) ==
    /\ DOMAIN machines = DOMAIN heal.m0
    /\ \A i \in DOMAIN heal.m0 :
        machines[i] = IF /\ heal.m0[i].current_status = "In Use"
                         /\ heal.m0[i].updated_at < t - 24 * 60 * 60 * 1000
                      THEN [heal.m0[i] EXCEPT !.current_status = "Available"]
                      ELSE heal.m0[i]

\* the bookings, given what they were, after a sweep whose clock read was t
SweptBookings(t) ==
    /\ DOMAIN bookings = DOMAIN heal.b0
    /\ \A i \in DOMAIN heal.b0 :
        bookings[i] = IF /\ heal.b0[i].status = "Pending"
                         /\ heal.b0[i].created_at < t - 7 * 24 * 60 * 60 * 1000
                      THEN [heal.b0[i] EXCEPT !.status = "Cancelled"]
                      ELSE heal.b0[i]

SummaryCounts ==
    handlerOut.value = "Self-healing complete. Reset "
        \o ToString(Changed(machines, heal.m0)) \o " stuck machines and "
        \o ToString(Changed(bookings, heal.b0)) \o " stale bookings."

\* C7 as stated: after a successful triggerSelfHealing, exactly the machines "In Use"
\* and updated more than 24 hours before the invocation are "Available", exactly the
\* bookings "Pending" and created more than 7 days before the invocation are
\* "Cancelled", every other row is unchanged, and the summary's two counts are the
\* numbers of rows changed.
C7_SweepAtInvocation ==
    Healed => SweptMachines(heal.t1) /\ SweptBookings(heal.t1) /\ SummaryCounts

\* C7 as amended: the same, with the age of a booking measured at the clock read of
\* the second update (at or after the invocation) and the age of a machine at the
\* clock read of the first update, which is the invocation.
C7_SweepAtEachUpdate ==
    Healed => /\ SweptMachines(heal.t1)
              /\ SweptBookings(heal.t2)
              /\ heal.t1 <= heal.t2
              /\ SummaryCounts

\* C7, the case: a sweep over the full store, which reset and cancelled some rows and
\* left others
C7_SweepHappened ==
    /\ Healed
    /\ heal.m0 = FullMachines
    /\ heal.b0 = FullBookings
    /\ Changed(machines, heal.m0) \in 1..3
    /\ Changed(bookings, heal.b0) \in 1..3

\* C8: the messages of the first completion request for a widget submit are the
\* system instruction, the turns the widget held before the submit (agent mapped to
\* assistant), then the new user turn once, as the last element.
C8_MessageList ==
    (prior.fromWidget /\ Len(sent) >= 1) =>
        sent[1].messages =
            <<[role |-> "system", content |-> SystemPrompt]>>
            \o [i \in 1..Len(prior.history) |->
                   [role |-> IF prior.history[i].role = "agent" THEN "assistant" ELSE "user",
                    content |-> prior.history[i].content]]
            \o <<[role |-> "user", content |-> req.query]>>

\* C8, the failing case: the first submit of a session, whose user turn is sent twice
C8_UserTurnTwice ==
    /\ prior.fromWidget
    /\ prior.history = <<>>
    /\ Len(sent) >= 1
    /\ Len(sent[1].messages) = 3
    /\ sent[1].messages[2] = sent[1].messages[3]

\* C9: on a first completion response without a function-call signal the server
\* sends no second completion request, invokes no handler, and answers 2xx with the
\* response's content when that is non-empty and with the fallback text
\* "Sorry, I could not generate a response." when it is empty or absent.
C9_DirectReply ==
    (/\ Len(upstream) >= 1
     /\ upstream[1] = "2xx"
     /\ ~(choice.present /\ choice.finish_reason = "function_call" /\ choice.fc.present)) =>
        /\ Done
        /\ Len(sent) = 1
        /\ invoked = <<>>
        /\ storeOps = <<>>
        /\ httpResp.status = 200
        /\ httpResp.kind = "reply"
        /\ httpResp.text = (IF choice.present /\ choice.content \notin {Null, ""}
                            THEN choice.content
                            ELSE "Sorry, I could not generate a response.")

\* C9, the cases: a response with content and no function call, answered with the content
C9_ContentRelayed ==
    /\ upstream = <<"2xx">>
    /\ choice.present
    /\ ~choice.fc.present
    /\ choice.content = "Two machines are offline."
    /\ httpResp = [status |-> 200, kind |-> "reply", text |-> "Two machines are offline."]

\* C10: in one POST request (1) at most one handler is invoked and at most two
\* completion requests are sent; (2) a handler is invoked only after a first response
\* signalling a registered function; (3) the second request is sent only after that
\* handler returned, carries the first request's messages plus the function-call and
\* function-result turns, and has no schemas; (4) a failed handler sends no second
\* request and a missing API key sends no first.
C10_ProtocolOrder ==
    /\ Len(invoked) <= 1
    /\ Len(sent) <= 2
    /\ invoked # <<>> =>
        /\ upstream # <<>>
        /\ upstream[1] = "2xx"
        /\ choice.present /\ choice.finish_reason = "function_call" /\ choice.fc.present
        /\ choice.fc.name \in HandlerNames
        /\ invoked[1].name = choice.fc.name
    /\ Len(sent) = 2 =>
        /\ invoked # <<>>
        /\ invoked[1].name \in HandlerNames
        /\ handlerOut.kind = "return"
        /\ Len(sent[2].messages) = Len(sent[1].messages) + 2
        /\ SubSeq(sent[2].messages, 1, Len(sent[1].messages)) = sent[1].messages
        /\ sent[2].messages[Len(sent[1].messages) + 1].role = "assistant"
        /\ sent[2].messages[Len(sent[1].messages) + 2].role = "function"
        /\ ~sent[2].functions
    /\ handlerOut.kind = "throw" => Len(sent) = 1
    /\ (pc # "idle" /\ ~apiKey) => sent = <<>>

\* C10, the failing case: a second completion request sent after "toString", which
\* is no handler, was called
C10_FollowupWithoutHandler ==
    /\ Len(sent) = 2
    /\ invoked = <<[name |-> "toString", kind |-> "inherited"]>>
    /\ sent[2].messages[Len(sent[1].messages) + 2].content = "\"[object Object]\""

====
